---- MODULE Spec2Model ----
(***************************************************************************)
(* Model of warpcomdev/residuos: the asyncio task pool of smart/pool.py    *)
(* (Pool.chunked, Pool.serial, Pool._consume) and gather of smart/api.py.  *)
(*                                                                         *)
(* The event loop is single threaded and cooperative.  A coroutine only    *)
(* yields where it awaits something that is not ready: the network call    *)
(* inside the task, asyncio.gather in serial, a get on an empty queue.     *)
(* Both queues are unbounded, so put never suspends.  Every action below   *)
(* runs one coroutine from one suspension point to the next, or a shorter  *)
(* piece of it, so the interleavings of the model include those of the     *)
(* event loop.                                                             *)
(***************************************************************************)
EXTENDS Integers, Sequences, FiniteSets, TLC

\* ---------------------------------------------------------------- bounds
MaxItems == 4
MaxChunkSize == 3
MaxPoolSize == 3
MaxAwaitables == 3
MaxInherit == 2

\* ------------------------------------------------------------- constants
\* The sentinel: Python's None.  Queue entries are references: 0 is None,
\* k >= 1 refers to the k-th chunk produced by the generator of chunked.
None == 0

VARIABLES
    pc,           \* position of the caller: chunked, serial, gather, done
    items,        \* argument of chunked: the input sequence
    chunk_size,   \* Pool._chunk_size
    pool_size,    \* Pool._pool_size
    chunk,        \* the chunks the generator of chunked yields, in order
    queue,        \* serial's work queue (FIFO)
    exc,          \* serial's queue of recorded errors (FIFO)
    wpc,          \* position of each _consume task: get, task, exit
    witem,        \* the item each _consume task holds
    result,       \* outcome of the call: none, ok, raised
    raised,       \* the error the call raised (None when none)
    dequeued,     \* history: every entry taken from the queue, in order
    completed,    \* history: chunks whose task returned normally
    failed,       \* history: chunks whose task raised
    raises,       \* history: how many times the call raised
    atFail,       \* history: chunks in flight at a moment some task failed
    wcalls,       \* history: number of task invocations of each _consume
    logged        \* errors written to the log by the pool

poolVars == <<pc, items, chunk_size, pool_size, chunk, queue, exc, wpc,
              witem, result, raised, dequeued, completed, failed, raises,
              atFail, wcalls, logged>>

VARIABLES
    gpc,          \* position of gather: idle, await, returned, raised
    awaitables,   \* number of awaitables passed to gather
    op,           \* state of each awaitable: new, running, ok, failed,
                  \* cancelled
    launched,     \* awaitables the source stream has yielded so far
    head,         \* awaitables whose outcome the stream has consumed
    gerr          \* the awaitable whose error gather raised (None if none)

gatherVars == <<gpc, awaitables, op, launched, head, gerr>>

VARIABLES
    mpc,          \* position of main: idle, start, auth, authed, gather,
                  \* done, autherror, error
    mode,         \* what main was asked for: create, delete, markdown
    token,        \* Api.token (None until auth stores it)
    status,       \* status of the response to the auth request (0: none)
    observed      \* history: the tokens the dispatch operations asserted on

flowVars == <<mpc, mode, token, status, observed>>

VARIABLES
    references,   \* Factory.references: key -> resolved AttribList
    last          \* history: the last call of the factory and its outcome

factoryVars == <<references, last>>

vars == <<poolVars, gatherVars, flowVars, factoryVars>>

\* ------------------------------------------------------- pure operators
Min(a, b) == IF a < b THEN a ELSE b

\* range(start, stop, step) for step > 0, as a sequence
RECURSIVE Range(_, _, _)
Range(start, stop, step) ==
    IF start >= stop THEN <<>>
    ELSE <<start>> \o Range(start + step, stop, step)

\* fixed[lo:hi] for 0 <= lo <= hi: the slice is clipped to the length
SliceShort(fixed, lo, hi) ==
    IF lo >= Len(fixed) THEN <<>>
    ELSE SubSeq(fixed, lo + 1, Min(hi, Len(fixed)) - 1)

Slice(fixed, lo, hi) ==
    IF lo >= Len(fixed) THEN <<>>
    ELSE SubSeq(fixed, lo + 1, Min(hi, Len(fixed)))

\* (fixed[n:n + csize] for n in range(0, len(fixed), csize))
Chunks(fixed, csize) ==
    LET starts == Range(0, Len(fixed), csize)
    IN  [k \in 1..Len(starts) |-> Slice(fixed, starts[k], starts[k] + csize)]

\* for item in items: if item is not None: await queue.put(item)
\* followed by await queue.put(None)
SeedSentinelFirst(refs) == <<None>> \o SelectSeq(refs, LAMBDA r : r # None)

Seed(refs) == Append(SelectSeq(refs, LAMBDA r : r # None), None)

\* tasks = [ensure_future(self._consume(...)) for _ in range(pool_size)]
TasksExtra(n) == [w \in 1..(n + 1) |-> "get"]

Tasks(n) == [w \in 1..n |-> "get"]

\* _consume, item is None: await queue.put(None)
PassOnNothing(q) == q

PassOnTwice(q) == Append(Append(q, None), None)

PassOn(q) == Append(q, None)

\* _consume, except Exception: await queue.put(None)
OnErrorPurge(q) == <<None>>

OnErrorFront(q) == <<None>> \o q

OnError(q) == Append(q, None)

\* await asyncio.gather(*tasks): every _consume task has returned
GatherAny == \E w \in DOMAIN wpc : wpc[w] = "exit"

GatherDone == \A w \in DOMAIN wpc : wpc[w] = "exit"

\* if not exc.empty()
HasErrorMany(e) == Len(e) > 1

HasError(e) == e # <<>>

InFlight == {w \in DOMAIN wpc : wpc[w] = "task"}

\* ------------------------------------------------------------------ Init
Iota(n) == [i \in 1..n |-> i]

\* the pool is not run
PoolIdle ==
    /\ pc = "idle"
    /\ items = <<>>
    /\ chunk_size = 1
    /\ pool_size = 1
    /\ chunk = <<>>
    /\ queue = <<>>
    /\ exc = <<>>
    /\ wpc = <<>>
    /\ witem = <<>>
    /\ result = "none"
    /\ raised = None
    /\ dequeued = <<>>
    /\ completed = {}
    /\ failed = {}
    /\ raises = 0
    /\ atFail = {}
    /\ wcalls = <<>>
    /\ logged = {}

\* gather is not called
GatherIdle ==
    /\ gpc = "idle"
    /\ awaitables = 0
    /\ op = <<>>
    /\ launched = 0
    /\ head = 0
    /\ gerr = None

\* main is not run
FlowIdle ==
    /\ mpc = "idle"
    /\ mode = "create"
    /\ token = None
    /\ status = 0
    /\ observed = {}

\* the factory is not used
NoData ==
    [entity_type |-> None, attributes |-> <<>>,
     inherit |-> [kind |-> "absent", specs |-> <<>>]]

NoList == [entity_type |-> None, static_attributes |-> <<>>,
           attributes |-> <<>>]

NoCall ==
    [key |-> None, data |-> NoData, before |-> <<>>, error |-> "none",
     merged |-> <<>>, result |-> NoList]

FactoryIdle ==
    /\ references = <<>>
    /\ last = NoCall

Init ==
    /\ GatherIdle
    /\ FlowIdle
    /\ FactoryIdle
    /\ pc = "chunked"
    /\ items \in {Iota(n) : n \in 0..MaxItems}
    /\ chunk_size \in 1..MaxChunkSize
    /\ pool_size \in 1..MaxPoolSize
    /\ chunk = <<>>
    /\ queue = <<>>
    /\ exc = <<>>
    /\ wpc = <<>>
    /\ witem = <<>>
    /\ result = "none"
    /\ raised = None
    /\ dequeued = <<>>
    /\ completed = {}
    /\ failed = {}
    /\ raises = 0
    /\ atFail = {}
    /\ wcalls = <<>>
    /\ logged = {}

\* --------------------------------------------------------------- actions
\* Pool.chunked up to the call of serial
Chunked ==
    /\ pc = "chunked"
    /\ chunk' = Chunks(items, chunk_size)
    /\ pc' = "serial"
    /\ UNCHANGED <<items, chunk_size, pool_size, queue, exc, wpc, witem,
                   result, raised, dequeued, completed, failed, raises,
                   atFail, wcalls, logged>>
    /\ UNCHANGED <<gatherVars, flowVars, factoryVars>>

\* Pool.serial up to await asyncio.gather: nothing in it suspends
Serial ==
    /\ pc = "serial"
    /\ queue' = Seed(Iota(Len(chunk)))
    /\ exc' = <<>>
    /\ wpc' = Tasks(pool_size)
    /\ witem' = [w \in DOMAIN wpc' |-> None]
    /\ wcalls' = [w \in DOMAIN wpc' |-> 0]
    /\ pc' = "gather"
    /\ UNCHANGED <<items, chunk_size, pool_size, chunk, result, raised,
                   dequeued, completed, failed, raises, atFail, logged>>
    /\ UNCHANGED <<gatherVars, flowVars, factoryVars>>

\* _consume: item = await queue.get(), then the sentinel branch or the
\* start of the task
Consume(w) ==
    /\ pc = "gather"
    /\ wpc[w] = "get"
    /\ queue # <<>>
    /\ LET item == Head(queue)
       IN  /\ dequeued' = Append(dequeued, item)
           /\ IF item = None
              THEN /\ queue' = PassOn(Tail(queue))
                   /\ wpc' = [wpc EXCEPT ![w] = "exit"]
                   /\ witem' = [witem EXCEPT ![w] = None]
                   /\ UNCHANGED wcalls
              ELSE /\ queue' = Tail(queue)
                   /\ wpc' = [wpc EXCEPT ![w] = "task"]
                   /\ witem' = [witem EXCEPT ![w] = item]
                   /\ wcalls' = [wcalls EXCEPT ![w] = @ + 1]
    /\ UNCHANGED <<pc, items, chunk_size, pool_size, chunk, exc, result,
                   raised, completed, failed, raises, atFail, logged>>
    /\ UNCHANGED <<gatherVars, flowVars, factoryVars>>

\* _consume: await task(...) returns normally; the loop goes on
TaskReturn(w) ==
    /\ pc = "gather"
    /\ wpc[w] = "task"
    /\ completed' = completed \cup {witem[w]}
    /\ wpc' = [wpc EXCEPT ![w] = "get"]
    /\ UNCHANGED <<pc, items, chunk_size, pool_size, chunk, queue, exc,
                   witem, result, raised, dequeued, failed, raises, atFail,
                   wcalls, logged>>
    /\ UNCHANGED <<gatherVars, flowVars, factoryVars>>

\* _consume: await task(...) raises an Exception; the handler puts the
\* sentinel and the error, and the loop goes on
TaskRaise(w) ==
    /\ pc = "gather"
    /\ wpc[w] = "task"
    /\ failed' = failed \cup {witem[w]}
    /\ atFail' = atFail \cup {witem[v] : v \in InFlight \ {w}}
    /\ queue' = OnError(queue)
    /\ exc' = Append(exc, witem[w])
    /\ wpc' = [wpc EXCEPT ![w] = "get"]
    /\ UNCHANGED <<pc, items, chunk_size, pool_size, chunk, witem, result,
                   raised, dequeued, completed, raises, wcalls, logged>>
    /\ UNCHANGED <<gatherVars, flowVars, factoryVars>>

\* Pool.serial after await asyncio.gather(*tasks)
SerialReturn ==
    /\ pc = "gather"
    /\ GatherDone
    /\ IF HasError(exc)
       THEN /\ result' = "raised"
            /\ raised' = Head(exc)
            /\ exc' = Tail(exc)
            /\ raises' = raises + 1
       ELSE /\ result' = "ok"
            /\ UNCHANGED <<raised, exc, raises>>
    /\ pc' = "done"
    /\ UNCHANGED <<items, chunk_size, pool_size, chunk, queue, wpc, witem,
                   dequeued, completed, failed, atFail, wcalls, logged>>
    /\ UNCHANGED <<gatherVars, flowVars, factoryVars>>

Next ==
    \/ Chunked
    \/ Serial
    \/ \E w \in DOMAIN wpc : Consume(w)
    \/ \E w \in DOMAIN wpc : TaskReturn(w)
    \/ \E w \in DOMAIN wpc : TaskRaise(w)
    \/ SerialReturn

Spec == Init /\ [][Next]_vars

TypeOK ==
    /\ pc \in {"idle", "chunked", "serial", "gather", "done"}
    /\ gpc \in {"idle", "await", "returned", "raised"}
    /\ result \in {"none", "ok", "raised"}
    /\ \A w \in DOMAIN wpc : wpc[w] \in {"get", "task", "exit"}

\* The event loop resumes every coroutine that is ready, and every task
\* invocation terminates (returns or raises).
FairSpec ==
    /\ Spec
    /\ WF_vars(Chunked)
    /\ WF_vars(Serial)
    /\ WF_vars(\E w \in DOMAIN wpc : Consume(w))
    /\ WF_vars(\E w \in DOMAIN wpc : TaskReturn(w) \/ TaskRaise(w))
    /\ WF_vars(SerialReturn)

\* ------------------------------------------------------ derived notions
ChunkRefs == 1..Len(chunk)

RECURSIVE Count(_, _)
Count(seq, x) ==
    IF seq = <<>> THEN 0
    ELSE (IF Head(seq) = x THEN 1 ELSE 0) + Count(Tail(seq), x)

\* number of times the task was invoked on chunk k
Calls(k) == Count(dequeued, k)

\* number of task invocations so far
Invocations == Len(SelectSeq(dequeued, LAMBDA r : r # None))

RECURSIVE Flatten(_)
Flatten(ss) == IF ss = <<>> THEN <<>> ELSE Head(ss) \o Flatten(Tail(ss))

CeilDiv(n, d) == (n + d - 1) \div d

\* ------------------------------------------------------------------ C1
\* C1: at every moment of a pool run the number of task invocations that
\* have started and not finished is at most pool_size.
C1_AtMostPoolSizeInFlight == Cardinality(InFlight) <= pool_size

C1_Witness == pool_size >= 2 /\ Cardinality(InFlight) = pool_size

\* ------------------------------------------------------------------ C2
\* C2: a failure drains: every invocation that was in flight when another
\* invocation failed has finished (returned or raised) when the call
\* returns, and no invocation at all is still in flight then.
C2_FailureDrains ==
    pc = "done" => /\ atFail \subseteq (completed \cup failed)
                   /\ InFlight = {}
                   /\ \A k \in ChunkRefs :
                          Calls(k) > 0 => k \in completed \cup failed

C2_Witness == pc = "done" /\ atFail # {} /\ atFail \subseteq completed

\* ------------------------------------------------------------------ C3
\* C3: when the task fails on a chunk, every other chunk, before and after
\* it in input order, has still been invoked once and has run to its end
\* when the call returns, and the call raises.
C3_OtherChunksStillRun ==
    (pc = "done" /\ failed # {}) =>
        /\ \A b \in failed : \A k \in ChunkRefs \ {b} :
               Calls(k) = 1 /\ k \in completed \cup failed
        /\ ChunkRefs \ failed \subseteq completed
        /\ result = "raised"

C3_Witness ==
    /\ pc = "done"
    /\ Len(chunk) = 3
    /\ failed = {2}
    /\ completed = {1, 3}
    /\ result = "raised"

\* ------------------------------------------------------------------ C4
\* C4: once a task invocation has failed, no worker starts the task on a
\* chunk that was still waiting in the queue.
C4_NoNewWorkAfterFailure ==
    [][failed # {} =>
          \A w \in DOMAIN wpc : wpc[w] = "get" => wpc'[w] # "task"]_vars

\* ------------------------------------------------------------------ C5
\* C5: the call raises if and only if some invocation failed; it raises
\* once, and only when every worker has stopped: nothing is raised while
\* workers run.
C5_RaisedOnceAfterDrain ==
    /\ raises <= 1
    /\ (result = "raised") <=> (raises = 1)
    /\ pc # "done" => result = "none" /\ raised = None
    /\ result # "none" => pc = "done" /\ GatherDone
    /\ pc = "done" => /\ (result = "raised") <=> (failed # {})
                      /\ (result = "ok") <=> (failed = {})
                      /\ result = "raised" => raised \in failed

C5_Witness ==
    pc = "done" /\ result = "raised" /\ pool_size >= 2 /\ completed # {}

\* ------------------------------------------------------------------ C6
\* C6: when the call returns, every failure of the run is in the log, the
\* one raised as the result of the call at most excepted.
C6_EveryErrorLogged ==
    pc = "done" => \A e \in failed : e \in logged \/ e = raised

\* ------------------------------------------------------------------ C7
\* C7: every run ends: all workers stop and the call returns, and then at
\* least pool_size minus the number of chunks workers have stopped on the
\* sentinel without invoking the task.
C7_RunTerminates ==
    <>(/\ pc = "done"
       /\ GatherDone
       /\ Cardinality({w \in DOMAIN wcalls : wcalls[w] = 0})
              >= pool_size - Len(chunk))

C7_Witness ==
    /\ pc = "done"
    /\ pool_size > Len(chunk)
    /\ Len(chunk) >= 1
    /\ failed # {}
    /\ \E w \in DOMAIN wcalls : wcalls[w] = 0 /\ wpc[w] = "exit"

\* ------------------------------------------------------------------ C8
\* C8: chunked cuts the input in contiguous chunks, none empty, none
\* longer than chunk_size, all but the last of chunk_size items; their
\* concatenation is the input and there are ceil(n / chunk_size) of them.
C8_ChunksPartitionItems ==
    pc # "chunked" =>
        /\ \A k \in ChunkRefs : /\ Len(chunk[k]) >= 1
                                /\ Len(chunk[k]) <= chunk_size
        /\ \A k \in ChunkRefs : k < Len(chunk) => Len(chunk[k]) = chunk_size
        /\ Flatten(chunk) = items
        /\ Len(chunk) = CeilDiv(Len(items), chunk_size)

C8_Witness ==
    /\ pc # "chunked"
    /\ Len(items) = 4
    /\ chunk_size = 3
    /\ chunk = << <<1, 2, 3>>, <<4>> >>

\* ------------------------------------------------------------------ C9
\* C9: when no invocation fails, the task has been invoked exactly once on
\* every chunk when the call returns, and the call succeeds; on an empty
\* input there is no invocation.
C9_EachChunkOnce ==
    (pc = "done" /\ failed = {}) =>
        /\ \A k \in ChunkRefs : Calls(k) = 1 /\ k \in completed
        /\ Invocations = Len(chunk)
        /\ items = <<>> => Invocations = 0
        /\ result = "ok"

C9_Witness ==
    /\ pc = "done"
    /\ failed = {}
    /\ Len(chunk) >= 2
    /\ pool_size >= 2
    /\ result = "ok"

\* ------------------------------------------------------------- gather
\* gather(*awaitables) of smart/api.py:
\*     await (stream.iterate(awaitables) | pipe.map(async_(lambda t: t)))
\* The source stream yields the awaitables one at a time; map runs each in
\* a task of its own (no task limit) and, being ordered, consumes the
\* outcomes in the order of the awaitables.  An error it consumes leaves the
\* stream's context, and leaving the context cancels the tasks still
\* running.  Awaiting the stream returns when the source is exhausted and
\* every outcome is consumed.
GInit ==
    /\ FlowIdle
    /\ FactoryIdle
    /\ gpc = "await"
    /\ awaitables \in 1..MaxAwaitables
    /\ op = [i \in 1..awaitables |-> "new"]
    /\ launched = 0
    /\ head = 0
    /\ gerr = None
    /\ PoolIdle

\* the tasks the stream's context cancels when an error leaves it
CancelPending(o) ==
    [i \in DOMAIN o |-> IF o[i] = "running" THEN "cancelled" ELSE o[i]]

\* An awaitable starts.  Under main it is a dispatch of the groups or of the
\* entities, and every dispatch operation of api.py (_create_iota,
\* _create_cb, _delete) begins with assert self.token is not None: the
\* AssertionError makes the awaitable fail at once.
Begin(m, tok) == IF m = "gather" /\ tok = None THEN "failed" ELSE "running"

Asserted(m, tok, seen) == IF m = "gather" THEN seen \cup {tok} ELSE seen

\* the source yields the next awaitable and map starts it in a new task
Launch ==
    /\ gpc = "await"
    /\ launched < awaitables
    /\ launched' = launched + 1
    /\ op' = [op EXCEPT ![launched + 1] = Begin(mpc, token)]
    /\ observed' = Asserted(mpc, token, observed)
    /\ UNCHANGED <<gpc, awaitables, head, gerr>>
    /\ UNCHANGED <<poolVars, factoryVars>>
    /\ UNCHANGED <<mpc, mode, token, status>>

\* a running awaitable returns
OpReturn(i) ==
    /\ gpc = "await"
    /\ op[i] = "running"
    /\ op' = [op EXCEPT ![i] = "ok"]
    /\ UNCHANGED <<gpc, awaitables, launched, head, gerr>>
    /\ UNCHANGED <<poolVars, factoryVars>>
    /\ UNCHANGED flowVars

\* a running awaitable raises
OpRaise(i) ==
    /\ gpc = "await"
    /\ op[i] = "running"
    /\ op' = [op EXCEPT ![i] = "failed"]
    /\ UNCHANGED <<gpc, awaitables, launched, head, gerr>>
    /\ UNCHANGED <<poolVars, factoryVars>>
    /\ UNCHANGED flowVars

\* the outcome the stream consumes is an error: awaiting the awaitable
\* raised, and nothing between the awaitable and gather catches it
SwallowError(o) == FALSE

IsError(o) == o = "failed"

\* the stream consumes the outcome of the first awaitable not consumed yet
Consumed ==
    /\ gpc = "await"
    /\ head < launched
    /\ op[head + 1] \in {"ok", "failed"}
    /\ IF ~IsError(op[head + 1])
       THEN /\ head' = head + 1
            /\ UNCHANGED <<gpc, op, gerr>>
       ELSE /\ gpc' = "raised"
            /\ gerr' = head + 1
            /\ op' = CancelPending(op)
            /\ UNCHANGED head
    /\ UNCHANGED <<awaitables, launched>>
    /\ UNCHANGED <<poolVars, factoryVars>>
    /\ UNCHANGED flowVars

\* the source is exhausted and every outcome is consumed
GatherReturn ==
    /\ gpc = "await"
    /\ launched = awaitables
    /\ head = awaitables
    /\ gpc' = "returned"
    /\ UNCHANGED <<awaitables, op, launched, head, gerr>>
    /\ UNCHANGED <<poolVars, factoryVars>>
    /\ UNCHANGED flowVars

GNext ==
    \/ Launch
    \/ \E i \in DOMAIN op : OpReturn(i)
    \/ \E i \in DOMAIN op : OpRaise(i)
    \/ Consumed
    \/ GatherReturn

GatherSpec == GInit /\ [][GNext]_vars

\* ----------------------------------------------------------------- C10
\* C10: when gather returns or raises, every awaitable passed to it has
\* been launched and has finished (returned or raised): none is cancelled,
\* still running or never started.
C10_GatherWaitsForAll ==
    gpc \in {"returned", "raised"} =>
        \A i \in DOMAIN op : op[i] \in {"ok", "failed"}

C20_SentinelPassedOn ==
    [][/\ pc' \in {"gather", "done"} => Count(queue', None) >= 1
       /\ \A w \in DOMAIN wpc :
              /\ wpc[w] = "exit" =>
                     /\ wpc'[w] = "exit"
                     /\ wcalls'[w] = wcalls[w]
                     /\ witem'[w] = None
              /\ (wpc[w] = "get" /\ wpc'[w] = "exit") =>
                     /\ Head(queue) = None
                     /\ Count(queue', None) = Count(queue, None)
                     /\ Len(queue') = Len(queue)
                     /\ wcalls'[w] = wcalls[w]]_vars

C20_Witness ==
    /\ pc = "gather"
    /\ \E w \in DOMAIN wpc : wpc[w] = "exit"
    /\ \E w \in DOMAIN wpc : wpc[w] = "task"
    /\ Count(queue, None) >= 1

\* ------------------------------------------------------------- main
\* main, create_entities and delete_entities of main.py with Api.auth of
\* api.py.  Both flows await api.auth(session) and only then build the two
\* dispatches (groups, entities) and hand them to gather.  The pool methods
\* main hands to gather are awaitables as gather sees them.
AuthStatuses == {199, 200, 201, 204, 205, 401}

\* auth: if resp.status < 200 or resp.status > 204: raise FetchError
AuthRejected(st) == st < 200 \/ st > 204

\* await api.auth(session): the flow goes on when auth has returned
AuthNotAwaited == mpc \in {"auth", "authed"}

AuthAwaited == mpc = "authed"

FInit ==
    /\ PoolIdle
    /\ GatherIdle
    /\ FactoryIdle
    /\ mpc = "start"
    /\ mode \in {"create", "delete", "markdown"}
    /\ token = None
    /\ status = 0
    /\ observed = {}

\* main: config.markdown prints the entities and neither logs in nor
\* dispatches
Markdown ==
    /\ mpc = "start"
    /\ mode = "markdown"
    /\ mpc' = "done"
    /\ UNCHANGED <<mode, token, status, observed>>
    /\ UNCHANGED <<poolVars, gatherVars, factoryVars>>

\* create_entities / delete_entities call api.auth, which posts the request
AuthPost ==
    /\ mpc = "start"
    /\ mode \in {"create", "delete"}
    /\ mpc' = "auth"
    /\ UNCHANGED <<mode, token, status, observed>>
    /\ UNCHANGED <<poolVars, gatherVars, factoryVars>>

\* the response arrives: auth raises FetchError, which leaves the flow, or
\* stores the token and returns
AuthResponse ==
    /\ mpc = "auth"
    /\ \E st \in AuthStatuses :
           /\ status' = st
           /\ IF AuthRejected(st)
              THEN /\ mpc' = "autherror"
                   /\ UNCHANGED token
              ELSE /\ mpc' = "authed"
                   /\ token' = 1
    /\ UNCHANGED <<mode, observed>>
    /\ UNCHANGED <<poolVars, gatherVars, factoryVars>>

\* pool = Pool(session); await gather(<groups>, <entities>)
Dispatch ==
    /\ AuthAwaited
    /\ gpc = "idle"
    /\ mpc' = "gather"
    /\ gpc' = "await"
    /\ awaitables' = 2
    /\ op' = [i \in 1..2 |-> "new"]
    /\ launched' = 0
    /\ head' = 0
    /\ gerr' = None
    /\ UNCHANGED <<mode, token, status, observed>>
    /\ UNCHANGED <<poolVars, factoryVars>>

\* gather has returned or raised: so does the flow
FlowEnd ==
    /\ mpc = "gather"
    /\ gpc \in {"returned", "raised"}
    /\ mpc' = IF gpc = "returned" THEN "done" ELSE "error"
    /\ UNCHANGED <<mode, token, status, observed>>
    /\ UNCHANGED <<poolVars, gatherVars, factoryVars>>

FNext ==
    \/ Markdown
    \/ AuthPost
    \/ AuthResponse
    \/ Dispatch
    \/ Launch
    \/ \E i \in DOMAIN op : OpReturn(i)
    \/ \E i \in DOMAIN op : OpRaise(i)
    \/ Consumed
    \/ GatherReturn
    \/ FlowEnd

FlowSpec == FInit /\ [][FNext]_vars

\* ----------------------------------------------------------------- C12
\* C12: in the create and in the delete flow no dispatch starts before
\* auth has returned and stored the token; when auth fails no dispatch
\* ever starts; so no dispatch operation finds the token to be None.
C12_AuthBeforeDispatch ==
    /\ None \notin observed
    /\ (\E i \in DOMAIN op : op[i] # "new") =>
           /\ token # None
           /\ mpc \in {"gather", "done", "error"}
           /\ ~AuthRejected(status)
    /\ mpc \in {"start", "auth", "autherror"} =>
           /\ gpc = "idle"
           /\ launched = 0
           /\ observed = {}
    /\ mpc = "autherror" => token = None

C12_Witness ==
    /\ mode = "delete"
    /\ mpc = "gather"
    /\ launched = 2
    /\ observed = {token}
    /\ token # None

\* ------------------------------------------------------------ factory
\* Factory of factory.py.  An Attrib is [name, value]; the value None is 0.
\* An AttribList is [entity_type, static_attributes, attributes]; fromattr
\* stores None for an empty tuple, and None and the empty tuple are both
\* the empty sequence here (attribs() skips the one as it runs over the
\* other).  A raw record (data) is [entity_type, attributes, inherit];
\* inherit is the '_inherit' field: absent, one mapping (dict) or a list of
\* mappings.  A mapping is [device_id, apikey, values]; an absent field is
\* None, as the attrs class defaults it, and values gives the override of
\* every name (None: no override).
Names == {"a", "b"}

Keys == {1, 2}

Attr(n, v) == [name |-> n, value |-> v]

NoValues == [n \in Names |-> None]

Mapping(d, k, vals) == [device_id |-> d, apikey |-> k, values |-> vals]

\* AttribList.attribs / Attrib.chain.  Attrib.chain is not in attrib.py as
\* given; it is the merge of the design: the groups are taken from the last
\* to the first and the first record of a name wins.
RECURSIVE FirstWins(_, _)
FirstWins(seq, seen) ==
    IF seq = <<>> THEN <<>>
    ELSE IF Head(seq).name \in seen THEN FirstWins(Tail(seq), seen)
    ELSE <<Head(seq)>> \o FirstWins(Tail(seq), seen \cup {Head(seq).name})

Reverse(seq) == [i \in 1..Len(seq) |-> seq[Len(seq) + 1 - i]]

Chain(groups) == FirstWins(Flatten(Reverse(groups)), {})

Attribs(list) == Chain(<<list.static_attributes, list.attributes>>)

\* AttribList.fromattr
FromAttrAllStatic(entity_type, attribs) ==
    [entity_type |-> entity_type,
     static_attributes |-> attribs,
     attributes |-> SelectSeq(attribs, LAMBDA x : x.value = None)]

FromAttrSwapped(entity_type, attribs) ==
    [entity_type |-> entity_type,
     static_attributes |-> SelectSeq(attribs, LAMBDA x : x.value = None),
     attributes |-> SelectSeq(attribs, LAMBDA x : x.value # None)]

FromAttr(entity_type, attribs) ==
    [entity_type |-> entity_type,
     static_attributes |-> SelectSeq(attribs, LAMBDA x : x.value # None),
     attributes |-> SelectSeq(attribs, LAMBDA x : x.value = None)]

\* raw_inherit = data.get('_inherit', tuple()); a mapping has 'items' and
\* becomes tuple(mapping): the tuple of its keys.  An entry of the result
\* is a mapping (str = "") or a string, one of the keys.
Entry(m) == [str |-> "", device_id |-> m.device_id, apikey |-> m.apikey,
             values |-> m.values]

StrEntry(name) == [str |-> name, device_id |-> None, apikey |-> None,
                   values |-> NoValues]

TupleOfKeys(m) ==
    LET present(f) == \/ f = "device_id" /\ m.device_id # None
                      \/ f = "apikey" /\ m.apikey # None
                      \/ f = "values" /\ m.values # NoValues
        keys == SelectSeq(<<"device_id", "apikey", "values">>, present)
    IN  [i \in 1..Len(keys) |-> StrEntry(keys[i])]

Normalize(raw) ==
    IF raw.kind = "absent" THEN <<>>
    ELSE IF raw.kind = "dict" THEN TupleOfKeys(raw.specs[1])
    ELSE [i \in 1..Len(raw.specs) |-> Entry(raw.specs[i])]

\* Factory.Inherit.fromdict: cls(**data) needs a mapping; neither
\* device_id nor apikey is a ValueError
InheritFromDict(entry) ==
    IF entry.str # "" THEN "TypeError"
    ELSE IF entry.device_id = None /\ entry.apikey = None THEN "ValueError"
    ELSE "none"

\* the first error the generator over the entries raises
FirstError(entries) ==
    IF \A i \in 1..Len(entries) : InheritFromDict(entries[i]) = "none"
    THEN "none"
    ELSE LET i == CHOOSE j \in 1..Len(entries) :
                      /\ InheritFromDict(entries[j]) # "none"
                      /\ \A h \in 1..(j - 1) :
                             InheritFromDict(entries[h]) = "none"
         IN  InheritFromDict(entries[i])

\* Factory.Inherit.key
InheritKey(inh) == IF inh.device_id # None THEN inh.device_id ELSE inh.apikey

\* Factory.Inherit.__call__: the attribute, or a clone with the value
InheritCall(inh, attrib) ==
    IF inh.values = NoValues THEN attrib
    ELSE IF inh.values[attrib.name] = None THEN attrib
    ELSE [attrib EXCEPT !.value = inh.values[attrib.name]]

\* Factory.Inherit.__call__, seen from the referenced list: the value is
\* set on Attrib.clone(attrib), so the record of the list is as it was
ReferencedOverwritten(inh, attrib) == InheritCall(inh, attrib)

Referenced(inh, attrib) == attrib

\* a referenced list after _inherit has run over its records
Visited(list, inh) ==
    [list EXCEPT
        !.static_attributes =
            [i \in 1..Len(@) |-> Referenced(inh, @[i])],
        !.attributes =
            [i \in 1..Len(@) |-> Referenced(inh, @[i])]]

\* the references after _inherit has run for every entry of inherit, all
\* of them registered
RECURSIVE Visit(_, _)
Visit(refs, inherit) ==
    IF inherit = <<>> THEN refs
    ELSE LET k == InheritKey(Head(inherit))
         IN  Visit([refs EXCEPT ![k] = Visited(refs[k], Head(inherit))],
                   Tail(inherit))

\* Factory._inherit, for a key that is in the references
Inherited(refs, inh) ==
    LET attribs == Attribs(refs[InheritKey(inh)])
    IN  [i \in 1..Len(attribs) |-> InheritCall(inh, attribs[i])]

\* Factory._entity_type
EntityTypeFirst(refs, data, inherit) ==
    IF data.entity_type # None
    THEN [error |-> "none", value |-> data.entity_type]
    ELSE IF Len(inherit) <= 0 THEN [error |-> "KeyError", value |-> None]
    ELSE IF InheritKey(inherit[1]) \notin DOMAIN refs
    THEN [error |-> "KeyError", value |-> None]
    ELSE [error |-> "none",
          value |-> refs[InheritKey(inherit[1])].entity_type]

EntityType(refs, data, inherit) ==
    IF data.entity_type # None
    THEN [error |-> "none", value |-> data.entity_type]
    ELSE IF Len(inherit) <= 0 THEN [error |-> "KeyError", value |-> None]
    ELSE IF InheritKey(inherit[Len(inherit)]) \notin DOMAIN refs
    THEN [error |-> "KeyError", value |-> None]
    ELSE [error |-> "none",
          value |-> refs[InheritKey(inherit[Len(inherit)])].entity_type]

\* Factory._attributes: the groups handed to Attrib.chain, in order
GroupsOwnFirst(refs, data, inherit) ==
    <<data.attributes>>
        \o [i \in 1..Len(inherit) |-> Inherited(refs, inherit[i])]

Groups(refs, data, inherit) ==
    Append([i \in 1..Len(inherit) |-> Inherited(refs, inherit[i])],
           data.attributes)

Attributes(refs, data, inherit) ==
    IF \E i \in 1..Len(inherit) : InheritKey(inherit[i]) \notin DOMAIN refs
    THEN [error |-> "KeyError", value |-> <<>>]
    ELSE [error |-> "none", value |-> Chain(Groups(refs, data, inherit))]

\* self.references[key] = attrib_list, reached only without an error
RegisterAlways(refs, key, error, list) ==
    [k \in DOMAIN refs \cup {key} |-> IF k = key THEN list ELSE refs[k]]

Register(refs, key, error, list) ==
    IF error # "none" THEN refs
    ELSE [k \in DOMAIN refs \cup {key} |-> IF k = key THEN list ELSE refs[k]]

\* Factory.__call__: the error it raises, the merged attributes, the list
\* it returns and the references it leaves
Call(refs, key, data) ==
    LET inherit == Normalize(data.inherit)
        e1 == FirstError(inherit)
        et == IF e1 = "none" THEN EntityType(refs, data, inherit)
              ELSE [error |-> e1, value |-> None]
        at == IF et.error = "none" THEN Attributes(refs, data, inherit)
              ELSE [error |-> et.error, value |-> <<>>]
        list == IF at.error = "none" THEN FromAttr(et.value, at.value)
                ELSE NoList
    IN  [error |-> at.error,
         merged |-> at.value,
         result |-> list,
         references |->
             Register(IF at.error = "none" THEN Visit(refs, inherit)
                      ELSE refs,
                      key, at.error, list)]

\* the raw records the factory is called with
OwnAttributes ==
    {<<>>, <<Attr("a", 1)>>, <<Attr("a", None), Attr("b", 2)>>,
     <<Attr("b", None), Attr("a", None)>>}

Override(v) == [NoValues EXCEPT !["a"] = v]

Mappings ==
    {Mapping(None, None, NoValues), Mapping(1, 2, NoValues),
     Mapping(1, None, NoValues), Mapping(1, None, Override(1)),
     Mapping(None, 2, Override(2))}

\* the mappings that name a list
Identified == {m \in Mappings : InheritKey(m) # None}

\* the '_inherit' fields: none, one mapping, a list of up to MaxInherit
\* mappings that name a list, or the list of one mapping that names none
Inherits ==
    {[kind |-> "absent", specs |-> <<>>]}
        \cup {[kind |-> "dict", specs |-> <<m>>] : m \in Mappings}
        \cup {[kind |-> "list", specs |-> <<m>>] :
                  m \in Mappings \ Identified}
        \cup {[kind |-> "list", specs |-> ms] :
                  ms \in UNION {[1..n -> Identified] :
                                    n \in 0..MaxInherit}}

\* the records resolved under key: one declares no entity_type or the
\* entity_type of its own kind, written as the key
Datas(key) ==
    [entity_type : {None, key}, attributes : OwnAttributes,
     inherit : Inherits]

RInit ==
    /\ PoolIdle
    /\ GatherIdle
    /\ FlowIdle
    /\ FactoryIdle

\* factory(key, data) is called and runs to its end
Resolve ==
    /\ last = NoCall
    /\ \E key \in Keys : \E data \in Datas(key) :
           LET out == Call(references, key, data)
           IN  /\ references' = out.references
               /\ last' = [key |-> key, data |-> data,
                           before |-> references, error |-> out.error,
                           merged |-> out.merged, result |-> out.result]
    /\ UNCHANGED <<poolVars, gatherVars, flowVars>>

\* the caller has taken the list, or the error, of the call
Returned ==
    /\ last # NoCall
    /\ last' = NoCall
    /\ UNCHANGED references
    /\ UNCHANGED <<poolVars, gatherVars, flowVars>>

RNext == Resolve \/ Returned

FactorySpec == RInit /\ [][RNext]_vars

\* ------------------------------------------------ factory: derived notions
Called == last # NoCall

Ok == Called /\ last.error = "none"

\* the mappings of the inheritance block of the last call, as written
RawSpecs == last.data.inherit.specs

\* the inheritance specs of the last call when the block is a list
ListSpecs == IF last.data.inherit.kind = "list" THEN RawSpecs ELSE <<>>

ListAttribs(list) == list.static_attributes \o list.attributes

NamesOf(seq) == {seq[i].name : i \in 1..Len(seq)}

\* the value of the first record of seq named n
ValueOf(seq, n) ==
    seq[CHOOSE i \in 1..Len(seq) :
            /\ seq[i].name = n
            /\ \A h \in 1..(i - 1) : seq[h].name # n].value

Distinct(seq) ==
    \A i, j \in 1..Len(seq) : i # j => seq[i].name # seq[j].name

RECURSIVE IsSubSeq(_, _)
IsSubSeq(sub, seq) ==
    IF sub = <<>> THEN TRUE
    ELSE IF seq = <<>> THEN FALSE
    ELSE IF Head(sub) = Head(seq) THEN IsSubSeq(Tail(sub), Tail(seq))
    ELSE IsSubSeq(sub, Tail(seq))

Max(S) == CHOOSE x \in S : \A y \in S : y <= x

\* the list the i-th spec of the last call refers to, as it was registered
\* when the call was made
RefOf(i) == last.before[InheritKey(ListSpecs[i])]

\* the specs of the last call whose list has an attribute named n
Givers(n) ==
    {i \in 1..Len(ListSpecs) : n \in NamesOf(ListAttribs(RefOf(i)))}

\* the value the precedence order gives to the name n
Expected(n) ==
    IF n \in NamesOf(last.data.attributes)
    THEN ValueOf(last.data.attributes, n)
    ELSE LET i == Max(Givers(n))
         IN  IF ListSpecs[i].values[n] # None
             THEN ListSpecs[i].values[n]
             ELSE ValueOf(ListAttribs(RefOf(i)), n)

\* ----------------------------------------------------------------- C13
\* C13: in a resolved list every name has the value of the first group
\* that has it, in the order: the record's own attributes, the group of
\* the last-listed spec (override applied), ..., the group of the
\* first-listed spec.
C13_Precedence ==
    Ok => \A n \in Names :
              /\ n \in NamesOf(ListAttribs(last.result))
                     <=> (n \in NamesOf(last.data.attributes)
                              \/ Givers(n) # {})
              /\ n \in NamesOf(ListAttribs(last.result))
                     => ValueOf(ListAttribs(last.result), n) = Expected(n)

C13_Witness ==
    /\ Ok
    /\ "a" \notin NamesOf(last.data.attributes)
    /\ ListSpecs = <<Mapping(None, 2, Override(2)),
                     Mapping(1, None, Override(1))>>
    /\ Givers("a") = {1, 2}
    /\ ValueOf(ListAttribs(last.result), "a") = 1

\* ----------------------------------------------------------------- C14
\* C14: in every list of the registry, and in the list a call returns,
\* the names of static_attributes and attributes together are pairwise
\* distinct.
C14_DistinctNames ==
    /\ \A k \in DOMAIN references : Distinct(ListAttribs(references[k]))
    /\ Distinct(ListAttribs(last.result))

C14_Witness ==
    /\ Ok
    /\ "a" \in NamesOf(last.data.attributes)
    /\ Givers("a") # {}
    /\ Len(ListAttribs(last.result)) = 2
    /\ references[last.key] = last.result

\* ----------------------------------------------------------------- C15
\* C15: a resolved list has in static_attributes exactly the merged
\* records whose value (overrides applied) is not None and in attributes
\* exactly the others, each sequence in the order of the merge, no record
\* lost and none in both.
C15_PartitionByValue ==
    /\ Ok =>
           LET st == last.result.static_attributes
               dy == last.result.attributes
           IN  /\ \A i \in 1..Len(st) : st[i].value # None
               /\ \A i \in 1..Len(dy) : dy[i].value = None
               /\ Len(st) + Len(dy) = Len(last.merged)
               /\ IsSubSeq(st, last.merged)
               /\ IsSubSeq(dy, last.merged)
               /\ \A i \in 1..Len(last.merged) :
                      /\ last.merged[i].value # None =>
                             \E h \in 1..Len(st) : st[h] = last.merged[i]
                      /\ last.merged[i].value = None =>
                             \E h \in 1..Len(dy) : dy[h] = last.merged[i]
    /\ \A k \in DOMAIN references :
           /\ \A i \in 1..Len(references[k].static_attributes) :
                  references[k].static_attributes[i].value # None
           /\ \A i \in 1..Len(references[k].attributes) :
                  references[k].attributes[i].value = None

C15_Witness ==
    /\ Ok
    /\ Len(last.result.static_attributes) = 2
    /\ \E i \in 1..Len(ListSpecs) : ListSpecs[i].values # NoValues
    /\ "a" \notin NamesOf(last.data.attributes)

\* ----------------------------------------------------------------- C16
\* C16: a call whose inheritance block refers to a key that is not in the
\* registry fails, and a failed call leaves the registry as it was: no
\* entry is added or replaced.
UnregisteredRef ==
    \E i \in 1..Len(RawSpecs) :
        /\ InheritKey(RawSpecs[i]) # None
        /\ InheritKey(RawSpecs[i]) \notin DOMAIN last.before

C16_FailureRegistersNothing ==
    Called =>
        /\ UnregisteredRef => last.error # "none"
        /\ last.error # "none" =>
               /\ references = last.before
               /\ last.result = NoList

C16_Witness ==
    /\ Called
    /\ last.data.inherit.kind = "list"
    /\ last.data.entity_type # None
    /\ UnregisteredRef
    /\ last.error = "KeyError"
    /\ DOMAIN references = {1}
    /\ last.key = 2

\* ----------------------------------------------------------------- C17
\* C17: the entity_type of a resolved list is the record's own when it
\* has one, otherwise the one of the list the last-listed spec refers to;
\* a record with neither an entity_type nor a spec fails and registers
\* nothing.
C17_EntityType ==
    Called =>
        /\ (Ok /\ last.data.entity_type # None) =>
               last.result.entity_type = last.data.entity_type
        /\ (Ok /\ last.data.entity_type = None) =>
               /\ Len(ListSpecs) >= 1
               /\ last.result.entity_type
                      = RefOf(Len(ListSpecs)).entity_type
        /\ (last.data.entity_type = None /\ Len(ListSpecs) = 0
                /\ last.data.inherit.kind # "dict") =>
               /\ last.error = "KeyError"
               /\ references = last.before

C17_Witness ==
    /\ Ok
    /\ last.data.entity_type = None
    /\ Len(ListSpecs) = 2
    /\ RefOf(1).entity_type # RefOf(2).entity_type
    /\ last.result.entity_type = RefOf(2).entity_type

\* ----------------------------------------------------------------- C18
\* C18: a call whose inheritance block has a spec with neither device_id
\* nor apikey, or with both, fails.
C18_ExactlyOneId ==
    Called =>
        \A i \in 1..Len(RawSpecs) :
            (RawSpecs[i].device_id = None <=> RawSpecs[i].apikey = None)
                => last.error # "none"

\* ----------------------------------------------------------------- C19
\* C19: a call whose inheritance block is one mapping S does what the call
\* with the block [S] does: it succeeds when that one succeeds, with the
\* same list and the same registry.
C19_DictSameAsList ==
    (Called /\ last.data.inherit.kind = "dict") =>
        LET alt == Call(last.before, last.key,
                        [last.data EXCEPT !.inherit.kind = "list"])
        IN  alt.error = "none" =>
                /\ last.error = "none"
                /\ last.result = alt.result
                /\ references = alt.references

\* ----------------------------------------------------------------- C22
\* the chunks dequeued so far, in the order of their dequeuing
DequeuedChunks == SelectSeq(dequeued, LAMBDA r : r # None)

\* C22: the entries dequeued over a pool run are the chunks in input
\* order followed only by sentinels: after a sentinel has been dequeued no
\* chunk is dequeued, and when the run is over every chunk has been
\* dequeued.  The order in which the chunks complete is free.
C22_DequeueOrder ==
    /\ DequeuedChunks = Iota(Len(DequeuedChunks))
    /\ \A i, j \in 1..Len(dequeued) :
           (i < j /\ dequeued[i] = None) => dequeued[j] = None
    /\ pc = "done" => Len(DequeuedChunks) = Len(chunk)

C22_Witness ==
    /\ pc = "gather"
    /\ Len(DequeuedChunks) >= 3
    /\ Count(dequeued, None) >= 2
    /\ failed # {}
    /\ 2 \in completed
    /\ \E w \in InFlight : witem[w] = 1

\* ----------------------------------------------------------------- C21
\* what the i-th spec of the last call yields for the record r of the list
\* it refers to
Yields(i, r) ==
    IF ListSpecs[i].values[r.name] # None
    THEN Attr(r.name, ListSpecs[i].values[r.name])
    ELSE r

\* C21: a successful call sets the registry entry of its key to the list
\* it returns, also when the key had an entry, and leaves every other
\* entry as it was, the referenced lists included; from a referenced
\* list a spec yields, record by record, the record with the override
\* value when the name has one and the record itself otherwise.
C21_ResolveFrame ==
    Ok =>
        /\ DOMAIN references = DOMAIN last.before \cup {last.key}
        /\ references[last.key] = last.result
        /\ \A k \in DOMAIN last.before :
               k # last.key => references[k] = last.before[k]
        /\ \A i \in 1..Len(ListSpecs) :
               LET from == Attribs(RefOf(i))
                   got == Inherited(last.before, ListSpecs[i])
               IN  /\ Len(got) = Len(from)
                   /\ \A h \in 1..Len(from) : got[h] = Yields(i, from[h])

C21_Witness ==
    /\ Ok
    /\ last.key = 2
    /\ DOMAIN last.before = {1, 2}
    /\ last.before[2] # last.result
    /\ ListSpecs = <<Mapping(1, None, Override(1))>>
    /\ NamesOf(ListAttribs(RefOf(1))) = {"a", "b"}
    /\ ValueOf(ListAttribs(RefOf(1)), "a") # 1
    /\ ValueOf(ListAttribs(last.result), "a") = 1
    /\ references[1] = last.before[1]

====
